---- MODULE Spec2Model ----
(***************************************************************************)
(* The batch result proxy: the Vercel handler of src/api/regular/result.js *)
(* and its older copy src/unnamed/part_000, with the helper                *)
(* fetchSingleResult.  JavaScript strings are sequences of one-character   *)
(* strings; an absent (undefined) query parameter or JSON member is a key  *)
(* that is not in the DOMAIN of the object.                                *)
(***************************************************************************)
EXTENDS Integers, Sequences, FiniteSets, TLC

VARIABLES
    variant,              \* which file serves the request: "regular" or "part_000"
    req,                  \* the request: [method, query]
    pc,                   \* handler position: "start", "waiting" (at the await), "done"
    registrationNumbers,  \* the handler's array of derived registration numbers
    issued,               \* every fetch() made so far, in the order it was made
    call,                 \* call[i]: the i-th fetchSingleResult invocation
    responses,            \* every response sent on res, in order
    inverted,             \* history: some call settled while an earlier one was unsettled
    upstream,             \* history: upstream[i] is what the network and the clock did to call i
    one,                  \* a fetchSingleResult invocation on its own (<<>> if none)
    entry                 \* the map callback's result for `one` (<<>> if not mapped)

vars ==
    <<variant, req, pc, registrationNumbers, issued, call, responses, inverted, upstream,
      one, entry>>

----------------------------------------------------------------------------
(* Program constants *)

BATCH_SIZE == 5

FETCH_TIMEOUT == 8000

(* Bounds of the model *)

\* longest "year" parameter drawn for the validation specification
MaxYearLen == 3

\* how many fields besides father_name and mother_name an upstream data object may carry
MaxOtherFields == 2

----------------------------------------------------------------------------
(* JavaScript string helpers *)

DigitChars == <<"0", "1", "2", "3", "4", "5", "6", "7", "8", "9">>

Digits == {DigitChars[k] : k \in 1..10}

HexChars == <<"0", "1", "2", "3", "4", "5", "6", "7", "8", "9", "a", "b", "c", "d", "e", "f">>

UpperHexChars == <<"0", "1", "2", "3", "4", "5", "6", "7", "8", "9", "A", "B", "C", "D", "E", "F">>

HexDigits == {HexChars[k] : k \in 1..16} \cup {UpperHexChars[k] : k \in 1..16}

HexVal(c) == (CHOOSE k \in 1..16 : HexChars[k] = c \/ UpperHexChars[k] = c) - 1

LowerChars == <<"a", "b", "c", "d", "e", "f", "g", "h", "i", "j", "k", "l", "m",
                "n", "o", "p", "q", "r", "s", "t", "u", "v", "w", "x", "y", "z">>

UpperChars == <<"A", "B", "C", "D", "E", "F", "G", "H", "I", "J", "K", "L", "M",
                "N", "O", "P", "Q", "R", "S", "T", "U", "V", "W", "X", "Y", "Z">>

\* String.prototype.toUpperCase, character by character
UpperOf(c) ==
    IF \E k \in 1..26 : LowerChars[k] = c
    THEN UpperChars[CHOOSE k \in 1..26 : LowerChars[k] = c]
    ELSE c

ToUpperCase(s) == [k \in 1..Len(s) |-> UpperOf(s[k])]

\* s.slice(b, e) with JavaScript's negative indices
Slice(s, b, e) ==
    LET n    == Len(s)
        from == IF b < 0 THEN (IF n + b < 0 THEN 0 ELSE n + b) ELSE (IF b > n THEN n ELSE b)
        to   == IF e < 0 THEN (IF n + e < 0 THEN 0 ELSE n + e) ELSE (IF e > n THEN n ELSE e)
    IN  SubSeq(s, from + 1, to)

\* s.slice(b): up to the end of the string
SliceFrom(s, b) == Slice(s, b, Len(s))

\* Number.prototype.toString for a non-negative integer
RECURSIVE NumToString(_)
NumToString(n) ==
    IF n < 10 THEN <<DigitChars[n + 1]>>
    ELSE NumToString(n \div 10) \o <<DigitChars[(n % 10) + 1]>>

\* s.padStart(len, c) with a one-character filler
RECURSIVE PadStart(_, _, _)
PadStart(s, len, c) == IF Len(s) >= len THEN s ELSE PadStart(<<c>> \o s, len, c)

\* the white space parseInt skips (the model's alphabet holds the space only)
IsWhiteSpace(c) == c = " "

RECURSIVE TrimStart(_)
TrimStart(s) ==
    IF s /= <<>> /\ IsWhiteSpace(Head(s)) THEN TrimStart(Tail(s)) ELSE s

\* the length of the longest prefix of s made of characters of `set`
RECURSIVE PrefixLen(_, _)
PrefixLen(s, set) ==
    IF s /= <<>> /\ Head(s) \in set THEN 1 + PrefixLen(Tail(s), set) ELSE 0

\* the value of the digit string z in radix R
RECURSIVE RadixValue(_, _)
RadixValue(z, R) ==
    IF z = <<>> THEN 0
    ELSE RadixValue(SubSeq(z, 1, Len(z) - 1), R) * R + HexVal(z[Len(z)])

\* parseInt(s, radix); radix 0 stands for an omitted radix.  NaN is [nan |-> TRUE].
ParseInt(s, radix) ==
    LET t        == TrimStart(s)
        negative == t /= <<>> /\ Head(t) = "-"
        u        == IF t /= <<>> /\ Head(t) \in {"+", "-"} THEN Tail(t) ELSE t
        hex      == /\ radix \in {0, 16}
                    /\ Len(u) >= 2
                    /\ u[1] = "0"
                    /\ u[2] \in {"x", "X"}
        R        == IF hex THEN 16 ELSE IF radix = 0 THEN 10 ELSE radix
        v        == IF hex THEN SliceFrom(u, 2) ELSE u
        allowed  == IF R = 16 THEN HexDigits ELSE Digits
        z        == SubSeq(v, 1, PrefixLen(v, allowed))
    IN  IF z = <<>> THEN [nan |-> TRUE, val |-> 0]
        ELSE [nan |-> FALSE,
              val |-> IF negative THEN 0 - RadixValue(z, R) ELSE RadixValue(z, R)]

\* the characters encodeURIComponent leaves alone
Unreserved ==
    Digits \cup {LowerChars[k] : k \in 1..26} \cup {UpperChars[k] : k \in 1..26}
           \cup {"-", "_", ".", "!", "~", "*", "'", "(", ")"}

\* encodeURIComponent on one character; of the characters it escapes the model's
\* alphabet holds the space, the slash and the question mark
EncodeChar(c) ==
    CASE c \in Unreserved -> <<c>>
      [] c = " " -> <<"%", "2", "0">>
      [] c = "/" -> <<"%", "2", "F">>
      [] c = "?" -> <<"%", "3", "F">>

RECURSIVE EncodeURIComponent(_)
EncodeURIComponent(s) ==
    IF s = <<>> THEN <<>> ELSE EncodeChar(Head(s)) \o EncodeURIComponent(Tail(s))

----------------------------------------------------------------------------
(* Validation of the query *)

\* !q[k]: the parameter is absent or the empty string
Falsy(q, k) == k \notin DOMAIN q \/ q[k] = <<>>

\* faulty variant: the pattern without its anchors, /\d{11}/, which any string
\* holding eleven digits in a row matches
Contains11Digits(s) ==
    \E a \in 1..Len(s) : a + 10 <= Len(s) /\ \A k \in a..(a + 10) : s[k] \in Digits

\* /^\d{11}$/ of result.js
Matches11Digits(s) == Len(s) = 11 /\ \A k \in 1..Len(s) : s[k] \in Digits

\* /^d{11}$/ of part_000: eleven letters d
Matches11Ds(s) == Len(s) = 11 /\ \A k \in 1..Len(s) : s[k] = "d"

RegNoTest(v, s) == IF v = "regular" THEN Matches11Digits(s) ELSE Matches11Ds(s)

romanMap ==
    (<<"I">> :> 1) @@ (<<"I", "I">> :> 2) @@ (<<"I", "I", "I">> :> 3) @@
    (<<"I", "V">> :> 4) @@ (<<"V">> :> 5) @@ (<<"V", "I">> :> 6) @@
    (<<"V", "I", "I">> :> 7) @@ (<<"V", "I", "I", "I">> :> 8)

\* semester?.toUpperCase(): <<>> stands for undefined, <<s>> for the string s
NormalizedSemester(q) ==
    IF "semester" \in DOMAIN q THEN <<ToUpperCase(q.semester)>> ELSE <<>>

BadRegNo(v, q) == Falsy(q, "reg_no") \/ ~RegNoTest(v, q.reg_no)

BadYear(q) == Falsy(q, "year") \/ ParseInt(q.year, 0).nan

BadSemester(q) ==
    LET ns == NormalizedSemester(q)
    IN  ns = <<>> \/ ns[1] = <<>> \/ ns[1] \notin DOMAIN romanMap

BadExamHeld(q) == Falsy(q, "exam_held")

\* result.js: four checks, each returning at once.  <<>> when all pass.
ValidationErrorRegular(q) ==
    IF BadRegNo("regular", q)
    THEN <<"Invalid parameter. Use \"reg_no\" with a full 11-digit number.">>
    ELSE IF BadYear(q)
    THEN <<"Missing or invalid \"year\" parameter.">>
    ELSE IF BadSemester(q)
    THEN <<"Missing or invalid \"semester\" parameter (use Roman numerals I-VIII).">>
    ELSE IF BadExamHeld(q)
    THEN <<"Missing \"exam_held\" parameter.">>
    ELSE <<>>

\* part_000: two if / else-if chains writing one validationError variable
ValidationErrorPart000(q) ==
    LET first == IF BadRegNo("part_000", q)
                 THEN <<"Invalid parameter. Use \"reg_no\" with full 11-digit number.">>
                 ELSE IF BadYear(q)
                 THEN <<"Missing or invalid \"year\".">>
                 ELSE <<>>
    IN  IF BadSemester(q)
        THEN <<"Missing or invalid \"semester\" (Roman I-VIII).">>
        ELSE IF BadExamHeld(q)
        THEN <<"Missing \"exam_held\" parameter.">>
        ELSE first

ValidationError(v, q) ==
    IF v = "regular" THEN ValidationErrorRegular(q) ELSE ValidationErrorPart000(q)

ParseErrorMessage(v) ==
    IF v = "regular" THEN "Could not parse starting number from reg_no."
    ELSE "Failed to parse number from reg_no."

----------------------------------------------------------------------------
(* Batch construction *)

Prefix(reg_no) == Slice(reg_no, 0, -3)

StartNum(reg_no) == ParseInt(SliceFrom(reg_no, -3), 10)

\* i >= 900 ? i.toString() : i.toString().padStart(3, '0')
Suffix(i) == IF i >= 900 THEN NumToString(i) ELSE PadStart(NumToString(i), 3, "0")

\* faulty variant: the loop written with i < endNum, one number short
RegistrationNumbersShort(prefix, startNum) ==
    LET endNum == startNum + BATCH_SIZE - 1
    IN  [k \in 1..(endNum - startNum) |-> prefix \o Suffix(startNum + k - 1)]

\* for (let i = startNum; i <= endNum; i++) registrationNumbers.push(prefix + suffix)
RegistrationNumbers(prefix, startNum) ==
    LET endNum == startNum + BATCH_SIZE - 1
    IN  [k \in 1..(endNum - startNum + 1) |-> prefix \o Suffix(startNum + k - 1)]

----------------------------------------------------------------------------
(* fetchSingleResult: one upstream call *)

\* the state of one invocation right after fetch() was called (lines 10-22)
NewCall(regNo, year, semesterRoman, encodedExamHeld) ==
    [regNo       |-> regNo,
     url         |-> [year |-> year, redg_no |-> regNo,
                      semester |-> semesterRoman, exam_held |-> encodedExamHeld],
     phase       |-> "fetching",
     timer       |-> [delay |-> FETCH_TIMEOUT, state |-> "armed"],
     apiResponse |-> <<>>,
     jsonData    |-> <<>>,
     error       |-> <<>>,
     promise     |-> [state |-> "pending"]]

\* clearTimeout(timeoutId): a timer that already fired stays fired
ClearTimeout(t) == IF t.state = "armed" THEN [t EXCEPT !.state = "cleared"] ELSE t

\* return value: the async function's promise is fulfilled with v
Return(c, v) ==
    [c EXCEPT !.phase = "settled", !.promise = [state |-> "fulfilled", value |-> v]]

\* faulty variant: a catch block that clears the timer and throws the error on,
\* so that the async function's promise is rejected
CatchAndRethrow(c, error) ==
    [c EXCEPT !.timer = ClearTimeout(c.timer), !.error = <<error>>,
              !.phase = "settled", !.promise = [state |-> "rejected"]]

\* the catch block (lines 41-45)
Catch(c, error) ==
    LET reason == IF error.name = "AbortError" THEN "Request Timed Out"
                  ELSE "Fetch Error: " \o error.message
    IN  Return([c EXCEPT !.timer = ClearTimeout(c.timer), !.error = <<error>>],
               [status |-> "error", regNo |-> c.regNo, reason |-> reason])

\* response.ok of node-fetch
IsOk(status) == status >= 200 /\ status < 300

\* faulty variant: no apiResponse.ok test, the body is read whatever the HTTP status
OnResponseIgnoringOk(c, status) ==
    [c EXCEPT !.timer = ClearTimeout(c.timer),
              !.apiResponse = <<[ok |-> IsOk(status), status |-> status]>>,
              !.phase = "reading"]

\* fetch() resolved with a response of this HTTP status (lines 23-29)
OnResponse(c, status) ==
    LET d == [c EXCEPT !.timer = ClearTimeout(c.timer),
                       !.apiResponse = <<[ok |-> IsOk(status), status |-> status]>>]
    IN  IF ~d.apiResponse[1].ok
        THEN Return(d, [status |-> "error", regNo |-> c.regNo,
                        reason |-> "BEU API Error: HTTP " \o ToString(status)])
        ELSE [d EXCEPT !.phase = "reading"]

\* a JSON member used as a condition: absent, "" and the other falsy values are false
Truthy(v) ==
    \/ v.kind \in {"object", "true"}
    \/ v.kind = "string" /\ v.str /= ""

MessageOr(j, fallback) ==
    IF "message" \in DOMAIN j /\ j.message /= "" THEN j.message ELSE fallback

StatusText(j) == IF "status" \in DOMAIN j THEN ToString(j.status) ELSE "undefined"

\* lines 31-39 on a parsed JSON object j
Classify(c, j) ==
    IF "status" \in DOMAIN j /\ j.status = 404
    THEN [status |-> "not_found", regNo |-> c.regNo,
          reason |-> MessageOr(j, "Record not found.")]
    ELSE IF \/ ~("status" \in DOMAIN j /\ j.status = 200)
            \/ ~("data" \in DOMAIN j /\ Truthy(j.data))
    THEN [status |-> "error", regNo |-> c.regNo,
          reason |-> "BEU API Data Error: " \o MessageOr(j, "Status " \o StatusText(j))]
    ELSE [status |-> "success", regNo |-> c.regNo, data |-> j.data]

\* apiResponse.json() resolved with the value body (lines 29-39); reading a member
\* of a null body throws a TypeError, which the catch block takes
OnJson(c, body) ==
    LET d == [c EXCEPT !.jsonData = <<body>>]
    IN  IF body.kind = "null"
        THEN Catch(d, [name |-> "TypeError",
                       message |-> "Cannot read properties of null (reading 'status')"])
        ELSE Return(d, Classify(d, body.obj))

\* the timer callback controller.abort(): the pending fetch, or the pending body
\* read, rejects with an AbortError; a settled call is left alone
OnTimer(c) ==
    LET d == [c EXCEPT !.timer.state = "fired"]
    IN  IF c.phase = "settled" THEN d
        ELSE Catch(d, [name |-> "AbortError", message |-> "The user aborted a request."])

----------------------------------------------------------------------------
(* The handler's map callback (lines 108-125) *)

Stripped == {"father_name", "mother_name"}

\* faulty variant: only father_name is deleted
DeleteFatherOnly(data) ==
    IF data.kind = "object"
    THEN [data EXCEPT !.props = [f \in (DOMAIN data.props) \ {"father_name"} |-> data.props[f]]]
    ELSE data

\* delete val.data.father_name; delete val.data.mother_name
DeleteNames(data) ==
    IF data.kind = "object"
    THEN [data EXCEPT !.props = [f \in (DOMAIN data.props) \ Stripped |-> data.props[f]]]
    ELSE data

\* delete on a member of null or undefined throws a TypeError
MapThrows(result) ==
    /\ result.state = "fulfilled"
    /\ result.value.status = "success"
    /\ result.value.data.kind \in {"null", "undefined"}

MapEntry(result, attempted) ==
    IF result.state = "fulfilled"
    THEN LET val == result.value
         IN  CASE val.status = "success" ->
                    [regNo |-> val.regNo, status |-> "success", data |-> DeleteNames(val.data)]
               [] val.status = "not_found" ->
                    [regNo |-> val.regNo, status |-> "Record not found"]
               [] OTHER ->
                    [regNo |-> val.regNo, status |-> "Error fetching result (temporary)",
                     reason |-> IF val.reason /= "" THEN val.reason ELSE "Unknown error"]
    ELSE [regNo |-> attempted, status |-> "Error fetching result (temporary)",
          reason |-> "Promise rejected"]

----------------------------------------------------------------------------
(* Inputs *)

\* the first eight digits of every well-formed reg_no drawn
SamplePrefix == <<"2", "1", "1", "0", "5", "1", "1", "1">>

\* reg_no values for the batch specification: a low start, one whose batch
\* crosses 900, one whose batch crosses 1000, and eleven letters d
BatchRegNos ==
    {SamplePrefix \o <<"0", "0", "7">>,
     SamplePrefix \o <<"8", "9", "8">>,
     SamplePrefix \o <<"9", "9", "6">>,
     <<"d", "d", "d", "d", "d", "d", "d", "d", "d", "d", "d">>}

SampleYear == <<"2", "0", "2", "4">>

SampleExamHeld == <<"M", "a", "y", "/", "2", "0", "2", "4">>

\* a query object from optional parameters: <<>> leaves the parameter out
MakeQuery(ro, yo, so, eo) ==
    LET full == [reg_no |-> ro, year |-> yo, semester |-> so, exam_held |-> eo]
    IN  [k \in {x \in DOMAIN full : full[x] /= <<>>} |-> full[k][1]]

EmptyQuery == MakeQuery(<<>>, <<>>, <<>>, <<>>)

BatchRequests ==
    {[method |-> m, query |-> EmptyQuery] : m \in {"OPTIONS", "POST", "GET"}}
    \cup {[method |-> "GET",
           query  |-> MakeQuery(<<r>>, <<SampleYear>>, <<<<"i", "v">>>>, <<SampleExamHeld>>)]
          : r \in BatchRegNos}

\* what the upstream may do in the batch specification
BatchStatuses == {200, 500}

NoProps == [f \in {} |-> ""]

Object(props) == [kind |-> "object", props |-> props, str |-> ""]

Primitive(kind, str) == [kind |-> kind, props |-> NoProps, str |-> str]

Json(obj) == [kind |-> "object", obj |-> obj]

JsonNull == [kind |-> "null", obj |-> NoProps]

SampleData == Object([name |-> "A", father_name |-> "F", sgpa |-> "8.1"])

BatchBodies ==
    {Json([status |-> 200, data |-> SampleData]),
     Json([status |-> 404, message |-> "No Record Found !!"])}

NetworkError == [name |-> "FetchError", message |-> "request failed, reason: ECONNRESET"]

BodyError == [name |-> "FetchError", message |-> "invalid json response body"]

----------------------------------------------------------------------------
(* The handler up to its await (lines 49-104) *)

Send(r) == responses' = Append(responses, r)

HandleOptions ==
    /\ pc = "start"
    /\ req.method = "OPTIONS"
    /\ Send([code |-> 204])
    /\ pc' = "done"
    /\ UNCHANGED <<variant, req, registrationNumbers, issued, call, inverted, upstream, one, entry>>

HandleMethodNotAllowed ==
    /\ pc = "start"
    /\ req.method /= "OPTIONS"
    /\ req.method /= "GET"
    /\ Send([code |-> 405, error |-> "Method " \o req.method \o " Not Allowed"])
    /\ pc' = "done"
    /\ UNCHANGED <<variant, req, registrationNumbers, issued, call, inverted, upstream, one, entry>>

HandleInvalid ==
    /\ pc = "start"
    /\ req.method = "GET"
    /\ ValidationError(variant, req.query) /= <<>>
    /\ Send([code |-> 400, error |-> ValidationError(variant, req.query)[1]])
    /\ pc' = "done"
    /\ UNCHANGED <<variant, req, registrationNumbers, issued, call, inverted, upstream, one, entry>>

HandleUnparsable ==
    /\ pc = "start"
    /\ req.method = "GET"
    /\ ValidationError(variant, req.query) = <<>>
    /\ StartNum(req.query.reg_no).nan
    /\ Send([code |-> 400, error |-> ParseErrorMessage(variant)])
    /\ pc' = "done"
    /\ UNCHANGED <<variant, req, registrationNumbers, issued, call, inverted, upstream, one, entry>>

HandleBatch ==
    /\ pc = "start"
    /\ req.method = "GET"
    /\ ValidationError(variant, req.query) = <<>>
    /\ ~StartNum(req.query.reg_no).nan
    /\ LET q   == req.query
           rns == RegistrationNumbers(Prefix(q.reg_no), StartNum(q.reg_no).val)
           cs  == [i \in 1..Len(rns) |->
                     NewCall(rns[i], q.year, NormalizedSemester(q)[1],
                             EncodeURIComponent(q.exam_held))]
       IN  /\ registrationNumbers' = rns
           /\ call' = cs
           /\ issued' = issued \o [i \in 1..Len(rns) |-> cs[i].url]
           /\ upstream' = [i \in 1..Len(rns) |-> <<>>]
    /\ pc' = "waiting"
    /\ UNCHANGED <<variant, req, responses, inverted, one, entry>>

----------------------------------------------------------------------------
(* The five calls in flight *)

Unsettled(c) == c.promise.state = "pending"

\* call i takes the event ev and moves to d; the history notes the event and a
\* completion out of index order
Step(i, ev, d) ==
    /\ call' = [call EXCEPT ![i] = d]
    /\ upstream' = [upstream EXCEPT ![i] = Append(@, ev)]
    /\ inverted' = (inverted \/ (~Unsettled(d) /\ \E k \in 1..(i - 1) : Unsettled(call[k])))
    /\ UNCHANGED <<variant, req, pc, registrationNumbers, issued, responses, one, entry>>

\* the upstream answers call i with response headers of some HTTP status
FetchResponse(i) ==
    /\ pc = "waiting"
    /\ call[i].phase = "fetching"
    /\ \E status \in BatchStatuses :
          Step(i, [type |-> "response", status |-> status], OnResponse(call[i], status))

\* the connection of call i fails before any response
FetchFail(i) ==
    /\ pc = "waiting"
    /\ call[i].phase = "fetching"
    /\ Step(i, [type |-> "network_error"], Catch(call[i], NetworkError))

\* the body of call i arrives whole and parses
BodyArrive(i) ==
    /\ pc = "waiting"
    /\ call[i].phase = "reading"
    /\ \E body \in BatchBodies :
          Step(i, [type |-> "json", body |-> body], OnJson(call[i], body))

\* the body of call i breaks off or is no JSON
BodyFail(i) ==
    /\ pc = "waiting"
    /\ call[i].phase = "reading"
    /\ Step(i, [type |-> "body_error"], Catch(call[i], BodyError))

\* faulty variant: one AbortController shared by the batch, so that the timer of
\* call i aborts every call that has not settled
TimerFireShared(i) ==
    /\ pc = "waiting"
    /\ call[i].timer.state = "armed"
    /\ call' = [k \in DOMAIN call |->
                  IF k = i \/ Unsettled(call[k]) THEN OnTimer(call[k]) ELSE call[k]]
    /\ upstream' = [upstream EXCEPT ![i] = Append(@, [type |-> "timeout"])]
    /\ inverted' = (inverted \/ \E k \in 1..(i - 1) : Unsettled(call[k]))
    /\ UNCHANGED <<variant, req, pc, registrationNumbers, issued, responses, one, entry>>

\* the timer of call i runs out
TimerFire(i) ==
    /\ pc = "waiting"
    /\ call[i].timer.state = "armed"
    /\ Step(i, [type |-> "timeout"], OnTimer(call[i]))

\* faulty variant: the await returns as soon as one call has settled
AnySettled == \E i \in DOMAIN call : ~Unsettled(call[i])

\* Promise.allSettled(fetchPromises) resolves
AllSettled == \A i \in DOMAIN call : ~Unsettled(call[i])

\* lines 106-130: the await returns, the results are mapped and the response sent
Respond ==
    /\ pc = "waiting"
    /\ AllSettled
    /\ LET resultsSettled == [i \in DOMAIN call |-> call[i].promise]
       IN  IF \E i \in DOMAIN resultsSettled : MapThrows(resultsSettled[i])
           THEN Send([code |-> 500, error |-> "Server error processing the batch.",
                      details |-> "Cannot convert undefined or null to object"])
           ELSE Send([code |-> 200,
                      body |-> [i \in DOMAIN resultsSettled |->
                                  MapEntry(resultsSettled[i], registrationNumbers[i])]])
    /\ pc' = "done"
    /\ UNCHANGED <<variant, req, registrationNumbers, issued, call, inverted, upstream, one, entry>>

----------------------------------------------------------------------------
(* The batch specification *)

Variants == {"regular", "part_000"}

InitWith(requests) ==
    /\ variant \in Variants
    /\ req \in requests
    /\ pc = "start"
    /\ registrationNumbers = <<>>
    /\ issued = <<>>
    /\ call = <<>>
    /\ responses = <<>>
    /\ inverted = FALSE
    /\ upstream = <<>>
    /\ one = <<>>
    /\ entry = <<>>

Init == InitWith(BatchRequests)

Next ==
    \/ HandleOptions
    \/ HandleMethodNotAllowed
    \/ HandleInvalid
    \/ HandleUnparsable
    \/ HandleBatch
    \/ \E i \in DOMAIN call : FetchResponse(i)
    \/ \E i \in DOMAIN call : FetchFail(i)
    \/ \E i \in DOMAIN call : BodyArrive(i)
    \/ \E i \in DOMAIN call : BodyFail(i)
    \/ \E i \in DOMAIN call : TimerFire(i)
    \/ Respond

Spec == Init /\ [][Next]_vars

----------------------------------------------------------------------------
(* The validation specification: every request shape, the handler run up to *)
(* its first return or to its await                                        *)

YearAlphabet == {"2", "0", "x", "f", " ", "-"}

Years == UNION {[1..n -> YearAlphabet] : n \in 0..MaxYearLen}

RegNoOptions ==
    {<<>>,
     <<<<>>>>,
     <<SamplePrefix \o <<"0", "4", "2">>>>,
     <<SamplePrefix \o <<"0", "4">>>>,
     <<SamplePrefix \o <<"0", "4", "2", "0">>>>,
     <<SamplePrefix \o <<"0", "4", "a">>>>,
     <<<<"d", "d", "d", "d", "d", "d", "d", "d", "d", "d", "d">>>>}

YearOptions == {<<>>} \cup {<<y>> : y \in Years}

SemesterOptions ==
    {<<>>,
     <<<<>>>>,
     <<<<"I">>>>,
     <<<<"i", "V">>>>,
     <<<<"v", "i", "i", "i">>>>,
     <<<<"I", "X">>>>,
     <<<<"I", "I", "I", "I">>>>}

ExamHeldOptions == {<<>>, <<<<>>>>, <<SampleExamHeld>>}

AllRequests ==
    {[method |-> m, query |-> EmptyQuery] : m \in {"OPTIONS", "POST", "DELETE"}}
    \cup {[method |-> "GET", query |-> MakeQuery(ro, yo, so, eo)] :
            ro \in RegNoOptions, yo \in YearOptions,
            so \in SemesterOptions, eo \in ExamHeldOptions}

InitAdmit == InitWith(AllRequests)

NextAdmit ==
    \/ HandleOptions
    \/ HandleMethodNotAllowed
    \/ HandleInvalid
    \/ HandleUnparsable
    \/ HandleBatch

AdmitSpec == InitAdmit /\ [][NextAdmit]_vars

----------------------------------------------------------------------------
(* The single-call specification: fetchSingleResult on its own against     *)
(* every upstream answer, then the map callback on its result              *)

HttpStatuses == {200, 201, 404, 500}

OtherField(k) == "field" \o ToString(k)

FieldNames == Stripped \cup {OtherField(k) : k \in 1..MaxOtherFields}

FieldValues == {"x", "y"}

DataObjects == UNION {{Object(props) : props \in [S -> FieldValues]} : S \in SUBSET FieldNames}

DataOptions ==
    {<<>>}
    \cup {<<d>> : d \in DataObjects}
    \cup {<<Primitive("null", "")>>, <<Primitive("false", "")>>, <<Primitive("true", "")>>,
          <<Primitive("string", "")>>, <<Primitive("string", "PASS")>>}

StatusOptions == {<<>>, <<200>>, <<404>>, <<500>>}

MessageOptions == {<<>>, <<"">>, <<"No Record Found !!">>}

MakeJson(so, mo, do) ==
    LET full == [status |-> so, message |-> mo, data |-> do]
    IN  Json([k \in {x \in DOMAIN full : full[x] /= <<>>} |-> full[k][1]])

JsonBodies ==
    {JsonNull}
    \cup {MakeJson(so, mo, do) :
            so \in StatusOptions, mo \in MessageOptions, do \in DataOptions}

OneStep(d) ==
    /\ one' = <<d>>
    /\ UNCHANGED <<variant, req, pc, registrationNumbers, issued, call, responses,
                   inverted, upstream, entry>>

OneResponse ==
    /\ one /= <<>>
    /\ one[1].phase = "fetching"
    /\ \E status \in HttpStatuses : OneStep(OnResponse(one[1], status))

OneFail ==
    /\ one /= <<>>
    /\ one[1].phase = "fetching"
    /\ OneStep(Catch(one[1], NetworkError))

OneBodyArrive ==
    /\ one /= <<>>
    /\ one[1].phase = "reading"
    /\ \E body \in JsonBodies : OneStep(OnJson(one[1], body))

OneBodyFail ==
    /\ one /= <<>>
    /\ one[1].phase = "reading"
    /\ OneStep(Catch(one[1], BodyError))

OneTimer ==
    /\ one /= <<>>
    /\ one[1].timer.state = "armed"
    /\ OneStep(OnTimer(one[1]))

\* the map callback of lines 108-125 on the settled result
OneMap ==
    /\ one /= <<>>
    /\ ~Unsettled(one[1])
    /\ entry = <<>>
    /\ entry' = IF MapThrows(one[1].promise)
                THEN <<[thrown |-> "TypeError"]>>
                ELSE <<MapEntry(one[1].promise, one[1].regNo)>>
    /\ UNCHANGED <<variant, req, pc, registrationNumbers, issued, call, responses,
                   inverted, upstream, one>>

InitFetch ==
    /\ variant \in Variants
    /\ req = [method |-> "GET", query |-> EmptyQuery]
    /\ pc = "start"
    /\ registrationNumbers = <<>>
    /\ issued = <<>>
    /\ call = <<>>
    /\ responses = <<>>
    /\ inverted = FALSE
    /\ upstream = <<>>
    /\ one = <<NewCall(SamplePrefix \o <<"0", "4", "2">>, SampleYear, <<"I", "V">>,
                       EncodeURIComponent(SampleExamHeld))>>
    /\ entry = <<>>

NextFetch ==
    \/ OneResponse
    \/ OneFail
    \/ OneBodyArrive
    \/ OneBodyFail
    \/ OneTimer
    \/ OneMap

FetchSpec == InitFetch /\ [][NextFetch]_vars

----------------------------------------------------------------------------
(* Properties *)

\* the request got past every rejection: the handler is at or beyond its await
Accepted == pc /= "start" /\ \A k \in DOMAIN responses : responses[k].code \notin {204, 405, 400}

DigitVal(c) == (CHOOSE k \in 1..10 : DigitChars[k] = c) - 1

\* a digit string read as a decimal number
RECURSIVE DecimalValue(_)
DecimalValue(s) ==
    IF s = <<>> THEN 0 ELSE 10 * DecimalValue(SubSeq(s, 1, Len(s) - 1)) + DigitVal(s[Len(s)])

AllDigits(s) == \A k \in 1..Len(s) : s[k] \in Digits

Distinct(seq) == \A a, b \in DOMAIN seq : a /= b => seq[a] /= seq[b]

\* C1: an accepted GET request makes exactly BATCH_SIZE = 5 upstream calls, the k-th
\* for reg_no's first eight characters followed by the decimal number startNum + k - 1
\* (startNum the last three digits of reg_no); the first is reg_no itself, no two
\* are for the same number, and no call is ever added (no retry).  A request that
\* is not accepted makes none.
C1_FiveDistinctCalls ==
    IF Accepted
    THEN LET r        == req.query.reg_no
             prefix   == SubSeq(r, 1, Len(r) - 3)
             startNum == DecimalValue(SubSeq(r, Len(r) - 2, Len(r)))
             numbers  == [k \in DOMAIN issued |-> issued[k].redg_no]
         IN  /\ Len(issued) = 5
             /\ \A k \in DOMAIN issued :
                   /\ SubSeq(numbers[k], 1, Len(prefix)) = prefix
                   /\ AllDigits(SubSeq(numbers[k], Len(prefix) + 1, Len(numbers[k])))
                   /\ DecimalValue(SubSeq(numbers[k], Len(prefix) + 1, Len(numbers[k])))
                        = startNum + k - 1
             /\ numbers[1] = r
             /\ Distinct(numbers)
    ELSE issued = <<>>

\* C1 witness: an answered batch whose numbers run across 900 (898 .. 902)
C1_Witness ==
    /\ pc = "done"
    /\ Accepted
    /\ Len(issued) = 5
    /\ issued[1].redg_no = SamplePrefix \o <<"8", "9", "8">>
    /\ issued[5].redg_no = SamplePrefix \o <<"9", "0", "2">>
    /\ \E i \in DOMAIN upstream : upstream[i] = <<[type |-> "timeout"]>>

\* C2: a 200 response carries exactly five entries, the i-th with the i-th derived
\* registration number as regNo, and is sent only once all five calls have settled,
\* whatever the order in which they completed; an accepted request is answered 200.
C2_OrderedAfterAllSettled ==
    /\ \A k \in DOMAIN responses :
          responses[k].code = 200 =>
             /\ Len(responses[k].body) = 5
             /\ Len(issued) = 5
             /\ \A i \in 1..5 :
                   /\ responses[k].body[i].regNo = issued[i].redg_no
                   /\ call[i].promise.state /= "pending"
    /\ (Accepted /\ pc = "done") => (Len(responses) = 1 /\ responses[1].code = 200)
    /\ (Accepted /\ \E i \in DOMAIN call : call[i].promise.state = "pending") => responses = <<>>

\* C2 witness: a 200 response after the calls completed out of index order
C2_Witness ==
    /\ pc = "done"
    /\ inverted
    /\ Len(responses) = 1
    /\ responses[1].code = 200
    /\ call[1].promise.value.status = "success"
    /\ call[5].promise.value.status = "error"

\* C5: every upstream call stays bounded by FETCH_TIMEOUT: as long as a call has not
\* settled, whether no response has come or the headers have come and the body has
\* not, its timer is armed; a call whose timer ran out is reported with the reason
\* 'Request Timed Out'; and so a waiting handler never depends on the upstream to
\* go on: either every call has settled or a timer is still to run out.
C5_EveryCallBoundedByTimeout ==
    /\ \A i \in DOMAIN call :
          /\ call[i].promise.state = "pending" =>
                (call[i].timer.state = "armed" /\ call[i].timer.delay = FETCH_TIMEOUT)
          /\ call[i].timer.state = "fired" =>
                /\ call[i].promise.state = "fulfilled"
                /\ call[i].promise.value.status = "error"
                /\ call[i].promise.value.reason = "Request Timed Out"
    /\ pc = "waiting" =>
          \/ \A i \in DOMAIN call : call[i].promise.state /= "pending"
          \/ \E i \in DOMAIN call : call[i].timer.state = "armed"

\* C9: every registration number sent upstream, and every regNo returned, is a
\* string of exactly 11 decimal digits sharing its first 8 digits with reg_no.
C9_DerivedNumbersWellFormed ==
    LET WellFormedNumber(n) ==
            /\ Len(n) = 11
            /\ AllDigits(n)
            /\ SubSeq(n, 1, 8) = SubSeq(req.query.reg_no, 1, 8)
    IN  /\ \A k \in DOMAIN issued : WellFormedNumber(issued[k].redg_no)
        /\ \A k \in DOMAIN responses :
              responses[k].code = 200 =>
                 \A i \in DOMAIN responses[k].body : WellFormedNumber(responses[k].body[i].regNo)

ApplyEvent(c, ev) ==
    CASE ev.type = "response"      -> OnResponse(c, ev.status)
      [] ev.type = "json"          -> OnJson(c, ev.body)
      [] ev.type = "network_error" -> Catch(c, NetworkError)
      [] ev.type = "body_error"    -> Catch(c, BodyError)
      [] ev.type = "timeout"       -> OnTimer(c)

RECURSIVE Replay(_, _)
Replay(c, events) ==
    IF events = <<>> THEN c ELSE Replay(ApplyEvent(c, Head(events)), Tail(events))

\* the entry a call for regNo returns when run on its own against these events
AloneEntry(regNo, url, events) ==
    LET c == Replay(NewCall(regNo, url.year, url.semester, url.exam_held), events)
    IN  MapEntry(c.promise, regNo)

\* C7: the entry returned for the i-th number depends on nothing but what the
\* upstream (and the clock) did to the i-th call: it is the entry that call yields
\* when run alone against the same events, whatever happened to the other four, so
\* two runs that differ only at j agree everywhere else; and the batch is answered 200.
C7_EntryDependsOnOwnCallOnly ==
    (Accepted /\ pc = "done") =>
        /\ responses[1].code = 200
        /\ DOMAIN responses[1].body = DOMAIN upstream
        /\ \A i \in DOMAIN upstream :
              /\ upstream[i] /= <<>>
              /\ responses[1].body[i] = AloneEntry(issued[i].redg_no, issued[i], upstream[i])

\* C7 witness: one call times out, another's connection fails, and a third is
\* answered with its record all the same
C7_Witness ==
    /\ pc = "done"
    /\ Len(responses) = 1
    /\ responses[1].code = 200
    /\ upstream[2] = <<[type |-> "timeout"]>>
    /\ upstream[4] = <<[type |-> "network_error"]>>
    /\ responses[1].body[3].status = "success"
    /\ responses[1].body[1].status = "Record not found"

\* the request is well formed: GET, an 11-digit reg_no, and year, semester and
\* exam_held that pass the handler's checks
WellFormed ==
    /\ req.method = "GET"
    /\ ~Falsy(req.query, "reg_no")
    /\ Len(req.query.reg_no) = 11
    /\ AllDigits(req.query.reg_no)
    /\ ~BadYear(req.query)
    /\ ~BadSemester(req.query)
    /\ ~BadExamHeld(req.query)

\* C8: whichever of the two files serves it, a well-formed request makes the five
\* upstream calls and is answered 200 with the five-entry array.
C8_VariantsAgreeOnWellFormed ==
    (WellFormed /\ pc /= "start") =>
        /\ Len(issued) = 5
        /\ \A k \in DOMAIN responses :
              responses[k].code = 200 /\ Len(responses[k].body) = 5

\* the data member is there and is none of JavaScript's empty values
DataPresent(j) ==
    /\ "data" \in DOMAIN j
    /\ j.data.kind \notin {"null", "false"}
    /\ ~(j.data.kind = "string" /\ j.data.str = "")

\* C3: the entry is 'success' (with data) exactly when the upstream answered with
\* an ok HTTP status and a JSON object of status 200 with data present; 'Record not
\* found' (no data, no reason) exactly when it answered ok with a JSON object of
\* status 404; otherwise 'Error fetching result (temporary)' with a non-empty
\* reason.  A non-ok HTTP status is an error and the body is never read.
C3_ThreeLabels ==
    entry /= <<>> =>
        LET c          == one[1]
            e          == entry[1]
            answered   == c.apiResponse /= <<>>
            answeredOk == answered /\ c.apiResponse[1].status \in 200..299
            hasObject  == c.jsonData /= <<>> /\ c.jsonData[1].kind = "object"
            j          == c.jsonData[1].obj
            isSuccess  == /\ answeredOk
                          /\ hasObject
                          /\ "status" \in DOMAIN j
                          /\ j.status = 200
                          /\ DataPresent(j)
            isNotFound == /\ answeredOk
                          /\ hasObject
                          /\ "status" \in DOMAIN j
                          /\ j.status = 404
        IN  /\ "status" \in DOMAIN e
            /\ e.regNo = c.regNo
            /\ IF isSuccess THEN e.status = "success" /\ DOMAIN e = {"regNo", "status", "data"}
               ELSE IF isNotFound
               THEN e.status = "Record not found" /\ DOMAIN e = {"regNo", "status"}
               ELSE /\ e.status = "Error fetching result (temporary)"
                    /\ DOMAIN e = {"regNo", "status", "reason"}
                    /\ e.reason /= ""
            /\ (answered /\ ~answeredOk) =>
                  /\ e.status = "Error fetching result (temporary)"
                  /\ c.jsonData = <<>>

\* C3 witness: HTTP 200 with the JSON body {status: 200, data: null} ends as an
\* error entry
C3_Witness ==
    /\ entry /= <<>>
    /\ one[1].apiResponse = <<[ok |-> TRUE, status |-> 200]>>
    /\ one[1].jsonData = <<Json([status |-> 200, data |-> Primitive("null", "")])>>
    /\ entry[1].status = "Error fetching result (temporary)"
    /\ entry[1].reason = "BEU API Data Error: Status 200"

\* C4: the data of a 'success' entry has no father_name and no mother_name, and is
\* otherwise the upstream data: the same fields with the same values.
C4_OnlyNamesStripped ==
    (entry /= <<>> /\ "status" \in DOMAIN entry[1] /\ entry[1].status = "success") =>
        LET up  == one[1].jsonData[1].obj.data
            out == entry[1].data
        IN  /\ "father_name" \notin DOMAIN out.props
            /\ "mother_name" \notin DOMAIN out.props
            /\ DOMAIN out.props = (DOMAIN up.props) \ {"father_name", "mother_name"}
            /\ \A f \in DOMAIN out.props : out.props[f] = up.props[f]
            /\ out.kind = up.kind
            /\ out.str = up.str

\* C4 witness: upstream data with both names and another field, returned with the
\* other field only
C4_Witness ==
    /\ entry /= <<>>
    /\ entry[1].status = "success"
    /\ DOMAIN one[1].jsonData[1].obj.data.props = {"father_name", "mother_name", OtherField(1)}
    /\ DOMAIN entry[1].data.props = {OtherField(1)}

\* reg_no is a string of exactly 11 decimal digits
RegNoIs11Digits(q) ==
    /\ "reg_no" \in DOMAIN q
    /\ Len(q.reg_no) = 11
    /\ AllDigits(q.reg_no)

\* y has a decimal digit at position k, after nothing but white space and at most
\* one sign right before it
LeadingDigitAt(y, k) ==
    /\ k \in 1..Len(y)
    /\ y[k] \in Digits
    /\ \A m \in 1..(k - 1) : y[m] = " " \/ (m = k - 1 /\ y[m] \in {"+", "-"})

\* year begins with an integer
YearBeginsWithInteger(q) ==
    /\ "year" \in DOMAIN q
    /\ \E k \in 1..Len(q.year) : LeadingDigitAt(q.year, k)

\* year begins with an integer as parseInt reads one: a leading 0x or 0X must be
\* followed by a hexadecimal digit
YearParsesAsInteger(q) ==
    /\ "year" \in DOMAIN q
    /\ \E k \in 1..Len(q.year) :
          /\ LeadingDigitAt(q.year, k)
          /\ (/\ q.year[k] = "0"
              /\ k + 1 <= Len(q.year)
              /\ q.year[k + 1] \in {"x", "X"})
                => (k + 2 <= Len(q.year) /\ q.year[k + 2] \in HexDigits)

RomanNumerals ==
    {<<"I">>, <<"I", "I">>, <<"I", "I", "I">>, <<"I", "V">>, <<"V">>, <<"V", "I">>,
     <<"V", "I", "I">>, <<"V", "I", "I", "I">>}

SameLetter(a, b) == a = b \/ (a = "i" /\ b = "I") \/ (a = "v" /\ b = "V")

\* semester is one of I .. VIII in any letter case
SemesterIsRoman(q) ==
    /\ "semester" \in DOMAIN q
    /\ \E r \in RomanNumerals :
          Len(r) = Len(q.semester) /\ \A k \in 1..Len(r) : SameLetter(q.semester[k], r[k])

ExamHeldNonEmpty(q) == "exam_held" \in DOMAIN q /\ q.exam_held /= <<>>

\* the admission rule of result.js, for a given reading of "year begins with an integer"
AdmissionRule(yearOk) ==
    (variant = "regular" /\ pc /= "start") =>
        LET q  == req.query
            ok == /\ req.method = "GET"
                  /\ RegNoIs11Digits(q)
                  /\ yearOk
                  /\ SemesterIsRoman(q)
                  /\ ExamHeldNonEmpty(q)
        IN  /\ (issued /= <<>>) <=> ok
            /\ ok => (Len(issued) = 5 /\ responses = <<>>)
            /\ ~ok =>
                  /\ Len(responses) = 1
                  /\ IF req.method = "OPTIONS" THEN responses[1].code = 204
                     ELSE IF req.method /= "GET" THEN responses[1].code = 405
                     ELSE /\ responses[1].code = 400
                          /\ responses[1].error =
                               IF ~RegNoIs11Digits(q)
                               THEN "Invalid parameter. Use \"reg_no\" with a full 11-digit number."
                               ELSE IF ~yearOk
                               THEN "Missing or invalid \"year\" parameter."
                               ELSE IF ~SemesterIsRoman(q)
                               THEN "Missing or invalid \"semester\" parameter (use Roman numerals I-VIII)."
                               ELSE "Missing \"exam_held\" parameter."

====
